---- MODULE Spec2Model ----
(***************************************************************************)
(* QuietEye backend: the event ingestion and persistence pipeline.         *)
(*                                                                         *)
(*   POST /v1/events   ingest_event  (backend/app/routes/events.py)        *)
(*   GET  /v1/events   list_events   (backend/app/routes/events.py)        *)
(*   GET  /health      health        (backend/app/routes/health.py)        *)
(*                                                                         *)
(* The store is the PostgreSQL table "events" (backend/app/models.py).     *)
(* Each caller's ingest request is a process whose steps are the round     *)
(* trips of the handler to the store: the INSERT and the COMMIT that       *)
(* db.commit() issues, then the SELECT of db.refresh().  The store can     *)
(* become unreachable between any two of them.                             *)
(*                                                                         *)
(* Numbers: confidence is held in hundredths (97 is 0.97); a timestamp is  *)
(* a wall-clock reading in hours with, when it is timezone-aware, its UTC  *)
(* offset in hours; the instant it denotes is wall - off.                  *)
(* The fields zone, snapshot_ref and extra are optional, unvalidated and   *)
(* copied through unchanged; they are left out of the records.             *)
(***************************************************************************)
EXTENDS Integers, Sequences, FiniteSets

VARIABLES
    pc,          \* pc[c]: where caller c's ingest_event call stands
    pending,     \* pending[c]: the EventRow object held by c's session
    rows,        \* the committed rows of table "events"
    nextId,      \* the next value of the id sequence (autoincrement)
    dbUp,        \* whether the store answers
    dbTimeZone,  \* UTC offset of the store's sessions (a server setting)
    resp,        \* the last exchange: the request and the response to it
    returned,    \* ids sent to a caller in a 200 response of ingest_event
    lastStored,  \* id in the most recent 200 response of ingest_event
    load         \* who sends requests, and which request bodies

vars == <<pc, pending, rows, nextId, dbUp, dbTimeZone, resp, returned,
          lastStored, load>>

----------------------------------------------------------------------------
(* Bounds of the model *)

MaxId == 2          \* ids the sequence may hand out

Callers == {"a", "b"}
DbTimeZones == {0, 2}

----------------------------------------------------------------------------
(* EventSchema *)

EventType == {"AFTER_HOURS_PRESENCE", "PERSON_IN_RESTRICTED_ZONE",
              "SMOKING_IN_RESTRICTED_ZONE", "FIRE_DETECTED",
              "FIRE_IN_RESTRICTED_ZONE", "ATTENDANCE_CHECKIN"}

ConfidenceGe == 0       \* Field(ge=0.0)
ConfidenceLe == 100     \* Field(le=1.0)
LimitGe == 1            \* Query(ge=1)
LimitLe == 500          \* Query(le=500)
LimitDefault == 50      \* Query(default=50)

Required == {"event_type", "site_id", "device_id", "camera_id", "confidence"}

\* A JSON number, and a JSON value that is no number.
Num(n) == [num |-> TRUE, val |-> n]
NotNum == [num |-> FALSE, val |-> 0]

\* datetime values: naive, or aware with a UTC offset.
Naive(w) == [wall |-> w, aware |-> FALSE, off |-> 0]
Aware(w, o) == [wall |-> w, aware |-> TRUE, off |-> o]

\* The instant an aware datetime denotes.
Instant(ts) == ts.wall - ts.off

\* datetime.now(timezone.utc) when the clock reads `now`.
utc_now_naive(now) == Aware(now, 0)

\* Variant of ConfidenceOk: the upper bound `le` left out.
ConfidenceOkNoUpper(v) == v.num /\ v.val >= ConfidenceGe

\* confidence: float = Field(ge=0.0, le=1.0)
ConfidenceOk(v) == v.num /\ v.val >= ConfidenceGe /\ v.val <= ConfidenceLe

\* event_type: EventType
EventTypeOk(v) == v \in EventType

\* site_id: str, device_id: str, camera_id: str -- any string, "" included.
StrOk(v) == TRUE

\* One field's validation; a required field that is absent is an error.
FieldOk(p, f) ==
    /\ f \in DOMAIN p
    /\ CASE f = "event_type" -> EventTypeOk(p[f])
         [] f = "confidence" -> ConfidenceOk(p[f])
         [] OTHER -> StrOk(p[f])

\* pydantic reports every offending field, not only the first.
FieldErrors(p) == {f \in Required : ~FieldOk(p, f)}

----------------------------------------------------------------------------
(* The requests the callers send *)

Without(p, fs) == [f \in DOMAIN p \ fs |-> p[f]]

\* The end-to-end event of the tests, with a naive timestamp.
Valid == [event_type |-> "FIRE_DETECTED", timestamp |-> Naive(1),
          site_id |-> "S1", device_id |-> "D1", camera_id |-> "C1",
          confidence |-> Num(97)]

\* Naive, UTC-qualified, and qualified with +02:00; Naive(1) and Aware(3, 2)
\* denote the same instant once the naive one is read as UTC.
TimestampsIn == {Naive(1), Aware(2, 0), Aware(3, 2)}

IdFields == {"site_id", "device_id", "camera_id"}

RawEvents ==
    {[Valid EXCEPT !.timestamp = t] : t \in TimestampsIn}
    \cup {Without(Valid, {"timestamp"})}
    \cup {[Valid EXCEPT !.confidence = c] : c \in {Num(-1), Num(101), NotNum}}
    \cup {[Valid EXCEPT !.event_type = e] : e \in {"UNKNOWN", ""}}
    \cup {[Valid EXCEPT !.event_type = "UNKNOWN", !.confidence = Num(101)]}
    \cup {Without(Valid, {f}) : f \in IdFields \cup {"confidence", "event_type"}}
    \cup {Without(Valid, IdFields)}
    \cup {[Valid EXCEPT !.site_id = "", !.device_id = "", !.camera_id = ""]}

\* The bodies sent when two callers send at once: the same event, the event
\* with a later timestamp, and a body that is refused.
CoreEvents ==
    {Valid, [Valid EXCEPT !.timestamp = Aware(2, 0)],
     [Valid EXCEPT !.event_type = "UNKNOWN", !.confidence = Num(101)]}

\* Two callers at once sending the core bodies, or one caller sending any.
Loads == {"two callers", "one caller"}
LoadCallers(l) == IF l = "two callers" THEN Callers ELSE {"a"}
LoadEvents(l) == IF l = "two callers" THEN CoreEvents ELSE RawEvents

\* The clock readings a request can meet, in hours; only the default
\* factory of `timestamp` reads the clock.
Clock(p) == IF "timestamp" \in DOMAIN p THEN {2} ELSE {1, 2}

\* ?limit=N, or no limit parameter.
Limit(n) == [given |-> TRUE, n |-> n]
NoLimit == [given |-> FALSE, n |-> 0]
LimitsIn == {NoLimit, Limit(0), Limit(1), Limit(2), Limit(500), Limit(501)}

----------------------------------------------------------------------------
(* TimestampNormalizer: ingest_event, lines 54-57 *)

\* payload.timestamp: the field's value, or the default factory's.
PayloadTimestamp(p, now) ==
    IF "timestamp" \in DOMAIN p THEN p.timestamp ELSE utc_now_naive(now)

\* ts.replace(tzinfo=timezone.utc) on a naive ts; an aware ts is kept as is.
NormalizeTs(ts) ==
    IF ~ts.aware THEN [ts EXCEPT !.aware = TRUE, !.off = 0] ELSE ts

----------------------------------------------------------------------------
(* EventStore: table "events" *)

\* EventRow(...) as ingest_event builds it; id 0 is "not yet assigned".
EventRow(p, ts) ==
    [id |-> 0, event_type |-> p.event_type, timestamp |-> ts,
     site_id |-> p.site_id, device_id |-> p.device_id,
     camera_id |-> p.camera_id, confidence |-> p.confidence.val]

\* A DateTime(timezone=True) column holds the instant, not the offset.
ToColumn(ts) == Instant(ts)

\* Reading the column gives the instant at the session's UTC offset.
FromColumn(instant, tz) == Aware(instant + tz, tz)

\* The row as the INSERT writes it.
Stored(row) ==
    [id |-> row.id, event_type |-> row.event_type,
     instant |-> ToColumn(row.timestamp),
     site_id |-> row.site_id, device_id |-> row.device_id,
     camera_id |-> row.camera_id, confidence |-> row.confidence]

\* The ORM object as a SELECT loads it.
Loaded(r, tz) ==
    [id |-> r.id, event_type |-> r.event_type,
     timestamp |-> FromColumn(r.instant, tz),
     site_id |-> r.site_id, device_id |-> r.device_id,
     camera_id |-> r.camera_id, confidence |-> r.confidence]

\* EventOut(id=row.id, ...): the fields are copied one by one.
EventOut(row) ==
    [id |-> row.id, event_type |-> row.event_type,
     timestamp |-> row.timestamp,
     site_id |-> row.site_id, device_id |-> row.device_id,
     camera_id |-> row.camera_id, confidence |-> row.confidence]

\* Variant of NextVal: a sequence that hands out the same value again.
NextValStuck(n) == n

\* The id sequence behind autoincrement: never steps back, also on rollback.
NextVal(n) == n + 1

\* Variant of InsertRow: an upsert keyed on the timestamp.
InsertRowUpsert(rs, r) == {x \in rs : x.instant # r.instant} \cup {r}

\* COMMIT makes the inserted row visible.
InsertRow(rs, r) == rs \cup {r}

Ids(rs) == {r.id : r \in rs}
RowOf(i) == CHOOSE r \in rows : r.id = i

----------------------------------------------------------------------------
(* QueryService: select(EventRow).order_by(desc(timestamp)).limit(limit) *)

\* Variant of LimitOk: any limit is let through.
LimitOkAny(q) == TRUE

\* limit: int = Query(default=50, ge=1, le=500)
LimitOk(q) == ~q.given \/ (q.n >= LimitGe /\ q.n <= LimitLe)
EffectiveLimit(q) == IF q.given THEN q.n ELSE LimitDefault

\* Variant of Before: ascending order.
BeforeAscending(a, b) == a.instant < b.instant

\* Whether row a goes before row b under ORDER BY timestamp DESC.
Before(a, b) == a.instant > b.instant

\* Insert r into a sorted sequence, after the rows it does not go before.
RECURSIVE InsertSorted(_, _)
InsertSorted(r, s) ==
    IF s = <<>> THEN <<r>>
    ELSE IF Before(r, Head(s)) THEN <<r>> \o s
    ELSE <<Head(s)>> \o InsertSorted(r, Tail(s))

\* Variant of OrderBy: no ORDER BY, the rows come in scan order.
OrderByNothing(scan) == scan

\* ORDER BY over the rows in the order the scan meets them: rows of equal
\* timestamp come out in scan order, which the store does not promise.
RECURSIVE OrderBy(_)
OrderBy(scan) ==
    IF scan = <<>> THEN <<>>
    ELSE InsertSorted(Head(scan), OrderBy(Tail(scan)))

\* LIMIT n
Take(s, n) == SubSeq(s, 1, IF n < Len(s) THEN n ELSE Len(s))

\* The orders a scan can meet the rows in.
Scans(rs) ==
    {s \in [1..Cardinality(rs) -> rs] :
        \A i, j \in DOMAIN s : i # j => s[i] # s[j]}

SelectRecent(scan, n) == Take(OrderBy(scan), n)

RECURSIVE MapLoaded(_, _)
MapLoaded(s, tz) ==
    IF s = <<>> THEN <<>>
    ELSE <<EventOut(Loaded(Head(s), tz))>> \o MapLoaded(Tail(s), tz)

----------------------------------------------------------------------------
(* HealthProbe *)

\* engine.connect() and SELECT 1: raise when the store does not answer.
ExecuteSelect1(up) == [raised |-> ~up]

\* Variant of db_ping: the exception is not caught.
db_ping_uncaught(up) == [raised |-> ExecuteSelect1(up).raised, value |-> TRUE]

\* db_ping: except Exception: return False
db_ping(up) ==
    IF ExecuteSelect1(up).raised
    THEN [raised |-> FALSE, value |-> FALSE]
    ELSE [raised |-> FALSE, value |-> TRUE]

----------------------------------------------------------------------------
(* Exchanges *)

\* A request (the body of a POST, the limit of a GET) and the response to
\* it: the status, the fields a 422 names, the events and db_ok of a 200,
\* and the limit the query ran with.  Status 0: no response yet.
Response(op, body, query, status, errors, events, ok, limit) ==
    [op |-> op, body |-> body, query |-> query, status |-> status,
     errors |-> errors, events |-> events, db_ok |-> ok, limit |-> limit]

\* A request without a body.
NoBody == Without(Valid, DOMAIN Valid)

\* No request yet.
NoResp == Response("none", NoBody, NoLimit, 0, {}, <<>>, FALSE, 0)

\* No EventRow held.
NoRow == EventRow(Valid, Naive(0))

\* An EventRow whose attributes are expired: only its primary key is left.
Expired(row) == [NoRow EXCEPT !.id = row.id]


----------------------------------------------------------------------------
Init ==
    /\ pc = [c \in Callers |-> "idle"]
    /\ pending = [c \in Callers |-> NoRow]
    /\ rows = {}
    /\ nextId = 1
    /\ dbUp = TRUE
    /\ dbTimeZone \in DbTimeZones
    /\ resp = NoResp
    /\ returned = {}
    /\ lastStored = 0
    /\ load \in Loads

\* The `finally: db.close()` of a call that raised: the session is dropped,
\* its open transaction rolled back, and the error goes to the caller.
Raise(c, body) ==
    /\ pc' = [pc EXCEPT ![c] = "idle"]
    /\ pending' = [pending EXCEPT ![c] = NoRow]
    /\ resp' = Response("ingest", body, NoLimit, 500, {}, <<>>, FALSE, 0)

\* POST /v1/events, up to the first half of db.commit(): the flush, which
\* sends the INSERT, which draws the id.  Validation of the body comes
\* before the handler runs: a body with errors is answered 422 and the
\* handler, which is what opens the session, is never entered.
\* SessionLocal(), EventRow(...) and db.add(row) do not reach the store.
IngestEvent(c, p, now) ==
    /\ pc[c] = "idle"
    /\ IF FieldErrors(p) # {}
       THEN /\ resp' = Response("ingest", p, NoLimit, 422, FieldErrors(p),
                             <<>>, FALSE, 0)
            /\ UNCHANGED <<pc, pending, nextId>>
       ELSE IF ~dbUp
       THEN /\ Raise(c, p)
            /\ UNCHANGED nextId
       ELSE /\ nextId <= MaxId
            /\ pending' = [pending EXCEPT ![c] =
                   [EventRow(p, NormalizeTs(PayloadTimestamp(p, now)))
                       EXCEPT !.id = nextId]]
            /\ nextId' = NextVal(nextId)
            /\ pc' = [pc EXCEPT ![c] = "flushed"]
            /\ resp' = Response("ingest", p, NoLimit, 0, {}, <<>>, FALSE, 0)
    /\ UNCHANGED <<rows, dbUp, dbTimeZone, returned, lastStored, load>>

\* db.commit(), second half: COMMIT.  The session then expires the object
\* (expire_on_commit): it keeps its identity and nothing else.
CommitTx(c) ==
    /\ pc[c] = "flushed"
    /\ IF dbUp
       THEN /\ rows' = InsertRow(rows, Stored(pending[c]))
            /\ pc' = [pc EXCEPT ![c] = "committed"]
            /\ pending' = [pending EXCEPT ![c] = Expired(pending[c])]
            /\ resp' = NoResp
       ELSE /\ Raise(c, NoBody)
            /\ UNCHANGED rows
    /\ UNCHANGED <<nextId, dbUp, dbTimeZone, returned, lastStored, load>>

\* db.refresh(row), return EventOut(...), finally db.close().
Refresh(c) ==
    /\ pc[c] = "committed"
    /\ IF dbUp
       THEN /\ resp' = Response("ingest", NoBody, NoLimit, 200, {},
                   <<EventOut(Loaded(RowOf(pending[c].id), dbTimeZone))>>,
                   FALSE, 0)
            /\ returned' = returned \cup {pending[c].id}
            /\ lastStored' = pending[c].id
            /\ pc' = [pc EXCEPT ![c] = "idle"]
            /\ pending' = [pending EXCEPT ![c] = NoRow]
       ELSE /\ Raise(c, NoBody)
            /\ UNCHANGED <<returned, lastStored>>
    /\ UNCHANGED <<rows, nextId, dbUp, dbTimeZone, load>>

\* GET /v1/events: one SELECT; a limit out of range is answered 422 before
\* the handler runs.
ListEvents(q, scan) ==
    /\ resp' = IF ~LimitOk(q)
               THEN Response("list", NoBody, q, 422, {"limit"}, <<>>, FALSE, 0)
               ELSE IF ~dbUp
               THEN Response("list", NoBody, q, 500, {}, <<>>, FALSE,
                             EffectiveLimit(q))
               ELSE Response("list", NoBody, q, 200, {},
                        MapLoaded(SelectRecent(scan, EffectiveLimit(q)), dbTimeZone),
                        FALSE, EffectiveLimit(q))
    /\ UNCHANGED <<pc, pending, rows, nextId, dbUp, dbTimeZone, returned,
                   lastStored, load>>

\* GET /health
Health ==
    /\ resp' = IF db_ping(dbUp).raised
               THEN Response("health", NoBody, NoLimit, 500, {}, <<>>, FALSE, 0)
               ELSE Response("health", NoBody, NoLimit, 200, {}, <<>>,
                             db_ping(dbUp).value, 0)
    /\ UNCHANGED <<pc, pending, rows, nextId, dbUp, dbTimeZone, returned,
                   lastStored, load>>

\* The environment: the store stops answering, or answers again.
StoreDown ==
    /\ dbUp
    /\ dbUp' = FALSE
    /\ UNCHANGED <<pc, pending, rows, nextId, dbTimeZone, resp, returned,
                   lastStored, load>>

StoreUp ==
    /\ ~dbUp
    /\ dbUp' = TRUE
    /\ UNCHANGED <<pc, pending, rows, nextId, dbTimeZone, resp, returned,
                   lastStored, load>>

Next ==
    \/ \E c \in LoadCallers(load), p \in LoadEvents(load) :
          \E now \in Clock(p) : IngestEvent(c, p, now)
    \/ \E c \in LoadCallers(load) : CommitTx(c)
    \/ \E c \in LoadCallers(load) : Refresh(c)
    \/ \E q \in LimitsIn, scan \in Scans(rows) : ListEvents(q, scan)
    \/ Health
    \/ StoreDown
    \/ StoreUp

Spec == Init /\ [][Next]_vars

----------------------------------------------------------------------------
(* Properties *)

RespIds == {resp.events[i].id : i \in DOMAIN resp.events}

\* C1: an ingest whose confidence is not a number in [0.0, 1.0], or whose
\* event_type is not one of the six, is answered with a validation error,
\* opens no session and leaves the rows, the sequence and every call under
\* way as they were.
C1_InvalidRejectedNoWrite ==
    [][(resp'.op = "ingest" /\ resp' # resp) =>
         LET p == resp'.body
             badConfidence ==
                 /\ "confidence" \in DOMAIN p
                 /\ (~p.confidence.num \/ p.confidence.val < 0
                       \/ p.confidence.val > 100)
             badType ==
                 /\ "event_type" \in DOMAIN p
                 /\ p.event_type \notin
                      {"AFTER_HOURS_PRESENCE", "PERSON_IN_RESTRICTED_ZONE",
                       "SMOKING_IN_RESTRICTED_ZONE", "FIRE_DETECTED",
                       "FIRE_IN_RESTRICTED_ZONE", "ATTENDANCE_CHECKIN"}
         IN  (badConfidence \/ badType) =>
                /\ resp'.status = 422
                /\ badConfidence => "confidence" \in resp'.errors
                /\ badType => "event_type" \in resp'.errors
                /\ rows' = rows /\ nextId' = nextId
                /\ pc' = pc /\ pending' = pending
      ]_vars

\* C1 witness: both fields were refused while the store held a row.
C1_Witness ==
    /\ resp.op = "ingest" /\ resp.status = 422
    /\ resp.errors = {"event_type", "confidence"}
    /\ rows # {}

\* C2: a row is in the store exactly when the ingest call that wrote it
\* has returned its id (or is still between its COMMIT and its return): no
\* call that ended in a storage error leaves a row behind, and every id
\* returned is the id of a row.
C2_RowIffIdReturned ==
    /\ \A r \in rows :
          \/ r.id \in returned
          \/ \E c \in Callers : pc[c] = "committed" /\ pending[c].id = r.id
    /\ returned \subseteq Ids(rows)

\* C3: every timestamp ingest hands to the store, and every timestamp of
\* an event it or list_events returns, has UTC offset zero.
C3_TimestampsAreUtc ==
    /\ \A c \in Callers : pc[c] = "flushed" => pending[c].timestamp.off = 0
    /\ \A i \in DOMAIN resp.events : resp.events[i].timestamp.off = 0

\* C4 as claimed: a list answered after a successful ingest contains the
\* event just stored, and with limit 1 it is the first element.
C4_ListContainsJustStored ==
    (resp.op = "list" /\ resp.status = 200 /\ lastStored # 0) =>
        /\ lastStored \in RespIds
        /\ resp.limit = 1 => resp.events[1].id = lastStored

\* C4 amended: the list contains the event just stored when fewer than
\* `limit` other rows have a timestamp at or after its own, and has it
\* first when every other row has an earlier timestamp.
C4_ListContainsJustStoredIfRecent ==
    (resp.op = "list" /\ resp.status = 200 /\ lastStored # 0) =>
        LET e == RowOf(lastStored)
            others == {r \in rows : r.id # lastStored /\ r.instant >= e.instant}
        IN  /\ Cardinality(others) < resp.limit => lastStored \in RespIds
            /\ others = {} => resp.events[1].id = lastStored

\* C4 witness: limit 1, two rows, the event just stored is the later one
\* and is the one returned.
C4_Witness ==
    /\ resp.op = "list" /\ resp.status = 200 /\ resp.limit = 1
    /\ lastStored # 0 /\ Cardinality(rows) = 2
    /\ \A r \in rows : r.id # lastStored => r.instant < RowOf(lastStored).instant
    /\ RespIds = {lastStored}

\* C5: ids are unique: no two rows share an id, the id a call under way
\* holds belongs to no other call and to no row but its own, every id in
\* use was drawn from the sequence, and every id returned names one row.
C5_IdsUnique ==
    /\ \A r1, r2 \in rows : r1.id = r2.id => r1 = r2
    /\ \A c \in Callers :
          /\ pc[c] = "flushed" => pending[c].id \notin Ids(rows)
          /\ pc[c] = "committed" => pending[c].id \in Ids(rows)
          /\ pc[c] \in {"flushed", "committed"} =>
                /\ pending[c].id >= 1 /\ pending[c].id < nextId
                /\ pending[c].id \notin returned
                /\ \A d \in Callers \ {c} :
                      pc[d] \in {"flushed", "committed"} =>
                          pending[d].id # pending[c].id
    /\ \A i \in Ids(rows) \cup returned : i >= 1 /\ i < nextId
    /\ returned \subseteq Ids(rows)
    /\ resp.op = "ingest" /\ resp.status = 200 =>
          Cardinality({r \in rows : r.id = resp.events[1].id}) = 1

\* C5 witness: the same payload ingested twice, two rows, two ids returned.
C5_Witness ==
    /\ returned = {1, 2}
    /\ \E r1, r2 \in rows :
          r1.id = 1 /\ r2.id = 2 /\ [r1 EXCEPT !.id = 2] = r2

\* C6: a list holds at most `limit` events, as many as there are rows when
\* those are fewer, each a row and none twice, in descending order of
\* timestamp, and no row left out is later than a row returned.
C6_ListRecentOrdered ==
    (resp.op = "list" /\ resp.status = 200) =>
        LET ev == resp.events
        IN  /\ Len(ev) <= resp.limit
            /\ Len(ev) = IF Cardinality(rows) < resp.limit
                         THEN Cardinality(rows) ELSE resp.limit
            /\ \A i \in DOMAIN ev :
                  \E r \in rows : ev[i] = EventOut(Loaded(r, dbTimeZone))
            /\ \A i, j \in DOMAIN ev :
                  i < j => /\ ev[i].id # ev[j].id
                           /\ Instant(ev[i].timestamp) >= Instant(ev[j].timestamp)
            /\ \A r \in rows : r.id \notin RespIds =>
                  \A i \in DOMAIN ev : r.instant <= Instant(ev[i].timestamp)

\* C6 witness: limit 1 cut a store of two rows with different timestamps.
C6_Witness ==
    /\ resp.op = "list" /\ resp.status = 200 /\ resp.limit = 1
    /\ Len(resp.events) = 1
    /\ \E r \in rows : r.instant < Instant(resp.events[1].timestamp)

\* C7: an ingest in which site_id, device_id or camera_id is missing or is
\* the empty string is answered with a validation error that names each
\* such field, and writes nothing.
C7_EmptyOrMissingIdRejected ==
    [][(resp'.op = "ingest" /\ resp' # resp /\ resp'.body # NoBody) =>
         LET p == resp'.body
             offending ==
                 {f \in {"site_id", "device_id", "camera_id"} :
                     f \notin DOMAIN p \/ p[f] = ""}
         IN  offending # {} =>
                /\ resp'.status = 422
                /\ offending \subseteq resp'.errors
                /\ rows' = rows /\ pc' = pc /\ pending' = pending
      ]_vars

\* C8: a limit outside [1, 500] is refused, store reachable or not, with no
\* events returned; 1 and 500 are accepted as they are; no limit means 50.
C8_LimitRange ==
    [][(resp'.op = "list" /\ resp' # resp) =>
         LET q == resp'.query
         IN  /\ (q.given /\ (q.n < 1 \/ q.n > 500)) =>
                   /\ resp'.status = 422 /\ resp'.events = <<>>
             /\ (q.given /\ q.n \in {1, 500}) =>
                   /\ resp'.status = IF dbUp THEN 200 ELSE 500
                   /\ resp'.limit = q.n
             /\ ~q.given =>
                   /\ resp'.status = IF dbUp THEN 200 ELSE 500
                   /\ resp'.limit = 50
             /\ rows' = rows
      ]_vars

\* C8 witness: a limit was refused while the store did not answer.
C8_Witness ==
    /\ resp.op = "list" /\ resp.status = 422
    /\ ~dbUp /\ rows # {}

\* C9: /health always answers 200, db_ok is whether the store answered,
\* and the rows are left as they were.
C9_HealthNeverFails ==
    [][(resp'.op = "health" /\ resp' # resp) =>
          /\ resp'.status = 200
          /\ resp'.db_ok = dbUp
          /\ rows' = rows
      ]_vars

\* C9 witness: /health answered db_ok false while the store was down.
C9_Witness ==
    /\ resp.op = "health" /\ resp.status = 200 /\ ~resp.db_ok
    /\ ~dbUp /\ rows # {}

\* C10: every step keeps every committed row as it is and adds at most one;
\* list_events and health add none; the COMMIT of an ingest adds exactly
\* one, the row the call then returns.
C10_AppendOnly ==
    [][/\ rows \subseteq rows'
       /\ Cardinality(rows' \ rows) <= 1
       /\ (resp'.op \in {"list", "health"} /\ resp' # resp) => rows' = rows
       /\ \A c \in Callers :
             /\ (CommitTx(c) /\ dbUp) =>
                   /\ Cardinality(rows') = Cardinality(rows) + 1
                   /\ rows' \ rows = {Stored(pending[c])}
             /\ (Refresh(c) /\ dbUp) =>
                   /\ rows' = rows
                   /\ \E r \in rows : resp'.events[1] = EventOut(Loaded(r, dbTimeZone))
      ]_vars

\* C10 witness: two rows committed, then a list left both in place.
C10_Witness ==
    /\ resp.op = "list" /\ resp.status = 200
    /\ Cardinality(rows) = 2

====
